---------------------------- MODULE Spec2Model ----------------------------
(***************************************************************************)
(* A model of github.com/RandySteven/common_go:                            *)
(*   - package caches: the Cache interface, its Memcache and Redis         *)
(*     adapters and the NewCache wrapper (src/caches/cache.go);            *)
(*   - package nsq: Publish, Consume and RegisterConsumer with its         *)
(*     per-message handler (src/nsq/consumer.go, src/unnamed/part_001).    *)
(*                                                                         *)
(* Go values are records tagged with their dynamic type ("kind"); byte     *)
(* strings are sequences of one-character strings, so that JSON encoding   *)
(* and decoding are computed character by character.                       *)
(***************************************************************************)
EXTENDS Naturals, Sequences, FiniteSets, TLC

(***************************************************************************)
(* Bounds of the model.                                                    *)
(***************************************************************************)
\* longest MultipleDataRecord written by SetMultiple
MaxLen == 2
\* how many messages are published
MaxMsgs == 2
\* how many values callers nest in a scope
MaxDepth == 2

(***************************************************************************)
(* The state: the cache component and the broker component.                *)
(***************************************************************************)
VARIABLES
    cache,     \* the Cache the program constructed (its dynamic type)
    store,     \* the backend behind cache
    last,      \* the last call made on cache and what it returned
    wstore,    \* the backend behind NewCache(cache), given the same calls
    wlast,     \* what the same call returned on NewCache(cache)
    watched,   \* the key whose writes are recorded
    written,   \* the keys some Set call has stored a value under
    lastSet    \* the last SetSingle/SetMultiple call on the watched key
               \* that the backend was reachable for

cacheVars == <<cache, store, last, wstore, wlast, watched, written, lastSet>>

VARIABLES
    msgs,         \* the messages the broker accepted, in publication order
    pubRet,       \* what the last Publish returned
    consumers,    \* per RegisterConsumer call: the consumer it made
    handlers,     \* per consumer: its handler goroutine
    lastConsume   \* the last direct call of Consume and what it returned

nsqVars == <<msgs, pubRet, consumers, handlers, lastConsume>>

vars == <<cacheVars, nsqVars>>

(***************************************************************************)
(* Go values.                                                              *)
(***************************************************************************)
NilV == [kind |-> "nil"]
Num(n) == [kind |-> "float64", n |-> n]
Str(s) == [kind |-> "string", s |-> s]
Bytes(b) == [kind |-> "bytes", b |-> b]
Slice(es) == [kind |-> "slice", elems |-> es]
\* a nil MultipleDataRecord (the zero value of the named result)
NilSlice == [kind |-> "nilslice"]
\* a value encoding/json cannot encode (a channel, a func)
ChanV == [kind |-> "chan"]

\* the nil error
Nil == "nil"

(***************************************************************************)
(* encoding/json, on the values of the model.                              *)
(***************************************************************************)
Digits == <<"0", "1", "2", "3", "4", "5", "6", "7", "8", "9">>

IsDigit(c) == \E i \in 1..10 : Digits[i] = c

DigitVal(c) == (CHOOSE i \in 1..10 : Digits[i] = c) - 1

RECURSIVE FormatNat(_)
FormatNat(n) ==
    IF n < 10 THEN <<Digits[n + 1]>>
    ELSE Append(FormatNat(n \div 10), Digits[(n % 10) + 1])

RECURSIVE MarshalValue(_)
RECURSIVE MarshalElems(_, _)
\* the JSON text of a value json.Marshal can encode (the strings of the
\* model hold no character that JSON escapes)
MarshalValue(v) ==
    CASE v.kind = "nil" -> <<"n", "u", "l", "l">>
      [] v.kind = "nilslice" -> <<"n", "u", "l", "l">>
      [] v.kind = "float64" -> FormatNat(v.n)
      [] v.kind = "string" -> <<"\"">> \o v.s \o <<"\"">>
      [] v.kind = "slice" -> <<"[">> \o MarshalElems(v.elems, 1) \o <<"]">>

MarshalElems(es, i) ==
    IF i > Len(es) THEN <<>>
    ELSE MarshalValue(es[i])
           \o (IF i < Len(es) THEN <<",">> ELSE <<>>)
           \o MarshalElems(es, i + 1)

RECURSIVE Marshalable(_)
Marshalable(v) ==
    CASE v.kind = "chan" -> FALSE
      [] v.kind = "bytes" -> FALSE
      [] v.kind = "slice" -> \A i \in 1..Len(v.elems) : Marshalable(v.elems[i])
      [] OTHER -> TRUE

ErrUnsupportedType == "json: unsupported type"

json_Marshal(v) ==
    IF Marshalable(v) THEN [b |-> MarshalValue(v), err |-> Nil]
    ELSE [b |-> <<>>, err |-> ErrUnsupportedType]

\* the parser: each Parse operator returns [ok, v, next]
ParseFail == [ok |-> FALSE, v |-> NilV, next |-> 0]

HasAt(b, i, lit) ==
    /\ i + Len(lit) - 1 <= Len(b)
    /\ \A j \in 1..Len(lit) : b[i + j - 1] = lit[j]

RECURSIVE DigitRun(_, _)
\* the index after the run of digits starting at i
DigitRun(b, i) ==
    IF i <= Len(b) /\ IsDigit(b[i]) THEN DigitRun(b, i + 1) ELSE i

RECURSIVE NatOf(_, _, _)
NatOf(b, i, j) ==
    IF j <= i THEN 0 ELSE NatOf(b, i, j - 1) * 10 + DigitVal(b[j - 1])

RECURSIVE StringEnd(_, _)
\* the index of the closing quote of the string whose content starts at i, or 0
StringEnd(b, i) ==
    IF i > Len(b) THEN 0
    ELSE IF b[i] = "\"" THEN i
    ELSE StringEnd(b, i + 1)

RECURSIVE ParseValue(_, _)
RECURSIVE ParseElems(_, _, _)
ParseValue(b, i) ==
    IF i > Len(b) THEN ParseFail
    ELSE IF HasAt(b, i, <<"n", "u", "l", "l">>)
        THEN [ok |-> TRUE, v |-> NilV, next |-> i + 4]
    ELSE IF IsDigit(b[i])
        THEN LET j == DigitRun(b, i) IN
             \* no leading zero
             IF b[i] = "0" /\ j > i + 1 THEN ParseFail
             ELSE [ok |-> TRUE, v |-> Num(NatOf(b, i, j)), next |-> j]
    ELSE IF b[i] = "\""
        THEN LET e == StringEnd(b, i + 1) IN
             IF e = 0 THEN ParseFail
             ELSE [ok |-> TRUE, v |-> Str(SubSeq(b, i + 1, e - 1)), next |-> e + 1]
    ELSE IF b[i] = "["
        THEN IF i + 1 <= Len(b) /\ b[i + 1] = "]"
             THEN [ok |-> TRUE, v |-> Slice(<<>>), next |-> i + 2]
             ELSE ParseElems(b, i + 1, <<>>)
    ELSE ParseFail

\* the elements of an array after its "[" or after a ","
ParseElems(b, i, acc) ==
    LET r == ParseValue(b, i) IN
    IF ~r.ok THEN ParseFail
    ELSE IF r.next > Len(b) THEN ParseFail
    ELSE IF b[r.next] = ","
        THEN ParseElems(b, r.next + 1, Append(acc, r.v))
    ELSE IF b[r.next] = "]"
        THEN [ok |-> TRUE, v |-> Slice(Append(acc, r.v)), next |-> r.next + 1]
    ELSE ParseFail

ErrSyntax == "json: syntax error"
ErrUnmarshalType == "json: cannot unmarshal into Go value of type caches.MultipleDataRecord"

\* one JSON value and nothing after it
ParseDocument(b) ==
    LET r == ParseValue(b, 1) IN
    IF r.ok /\ r.next = Len(b) + 1 THEN r ELSE ParseFail

\* json.Unmarshal(b, &result) with result a nil SingleDataRecord (interface{})
json_UnmarshalSingle(b) ==
    LET r == ParseDocument(b) IN
    IF r.ok THEN [v |-> r.v, err |-> Nil] ELSE [v |-> NilV, err |-> ErrSyntax]

\* json.Unmarshal(b, &result) with result a nil MultipleDataRecord: null
\* leaves the slice nil, an array fills it, any other value is a type error
json_UnmarshalMultiple(b) ==
    LET r == ParseDocument(b) IN
    IF ~r.ok THEN [v |-> NilSlice, err |-> ErrSyntax]
    ELSE IF r.v.kind = "nil" THEN [v |-> NilSlice, err |-> Nil]
    ELSE IF r.v.kind = "slice" THEN [v |-> r.v, err |-> Nil]
    ELSE [v |-> NilSlice, err |-> ErrUnmarshalType]

(***************************************************************************)
(* The backends.  A store maps each key to the bytes held under it.        *)
(***************************************************************************)
Keys == {"user:1", "user:2"}

Absent == [present |-> FALSE, b |-> <<>>]
Present(b) == [present |-> TRUE, b |-> b]

EmptyStore == [k \in Keys |-> Absent]

\* a transport failure of the backend client (connection refused, timeout)
ErrIO == "i/o timeout"
ErrCacheMiss == "memcache: cache miss"
RedisNil == "redis: nil"
ErrRedisMarshal == "redis: can't marshal (implement encoding.BinaryMarshaler)"

\* memcache.Client.Set: one request; the item replaces what the key held
memcache_Set(st, key, b, fault) ==
    IF fault THEN [store |-> st, err |-> ErrIO, calls |-> 1]
    ELSE [store |-> [st EXCEPT ![key] = Present(b)], err |-> Nil, calls |-> 1]

\* memcache.Client.Get: one request; ErrCacheMiss when the key holds nothing
memcache_Get(st, key, fault) ==
    IF fault THEN [b |-> <<>>, err |-> ErrIO, calls |-> 1]
    ELSE IF ~st[key].present THEN [b |-> <<>>, err |-> ErrCacheMiss, calls |-> 1]
    ELSE [b |-> st[key].b, err |-> Nil, calls |-> 1]

\* how the Redis client writes a command argument: nil, strings, byte
\* slices and numbers have a wire form, any other type is refused before
\* anything is sent
redis_WriteArg(v) ==
    CASE v.kind = "nil" -> [b |-> <<>>, err |-> Nil]
      [] v.kind = "string" -> [b |-> v.s, err |-> Nil]
      [] v.kind = "bytes" -> [b |-> v.b, err |-> Nil]
      [] v.kind = "float64" -> [b |-> FormatNat(v.n), err |-> Nil]
      [] OTHER -> [b |-> <<>>, err |-> ErrRedisMarshal]

\* redis.Options.MaxRetries is left unset by NewRedis: the client takes its
\* default
redis_MaxRetries == 3

\* the attempts the Redis client makes for one command: a command that fails
\* on the connection is sent again, up to MaxRetries times
redis_Attempts(fault) == IF fault THEN 1 + redis_MaxRetries ELSE 1

\* redis.Client.Set(ctx, key, value, 0).Err()
redis_Set(st, key, value, fault) ==
    LET a == redis_WriteArg(value) IN
    IF a.err # Nil THEN [store |-> st, err |-> a.err, calls |-> 1]
    ELSE IF fault THEN [store |-> st, err |-> ErrIO, calls |-> redis_Attempts(fault)]
    ELSE [store |-> [st EXCEPT ![key] = Present(a.b)], err |-> Nil,
          calls |-> redis_Attempts(fault)]

\* redis.Client.Get(ctx, key).Result(): redis.Nil when the key holds nothing
redis_Get(st, key, fault) ==
    IF fault THEN [b |-> <<>>, err |-> ErrIO, calls |-> redis_Attempts(fault)]
    ELSE IF ~st[key].present
    THEN [b |-> <<>>, err |-> RedisNil, calls |-> redis_Attempts(fault)]
    ELSE [b |-> st[key].b, err |-> Nil, calls |-> redis_Attempts(fault)]

(***************************************************************************)
(* The adapters.  A Set returns [store, err, calls], a Get returns         *)
(* [result, err, calls]; calls counts the requests made to the backend.    *)
(***************************************************************************)
SetReturn(st, err, calls) == [store |-> st, err |-> err, calls |-> calls]
GetReturn(result, err, calls) == [result |-> result, err |-> err, calls |-> calls]

\* a SetSingle that hands the value to the client without encoding it
memcacheCache_SetSingle_Unencoded(st, key, value, fault) ==
    LET a == redis_WriteArg(value) IN
    IF a.err # Nil THEN SetReturn(st, a.err, 0)
    ELSE memcache_Set(st, key, a.b, fault)

memcacheCache_SetSingle(st, key, value, fault) ==
    LET m == json_Marshal(value) IN
    IF m.err # Nil THEN SetReturn(st, m.err, 0)
    ELSE memcache_Set(st, key, m.b, fault)

memcacheCache_GetSingle(st, key, fault) ==
    LET resp == memcache_Get(st, key, fault) IN
    IF resp.err # Nil THEN GetReturn(NilV, resp.err, resp.calls)
    ELSE GetReturn(Bytes(resp.b), Nil, resp.calls)

\* a SetMultiple that looks at the error of Marshal after the write
memcacheCache_SetMultiple_WriteFirst(st, key, value, fault) ==
    LET m == json_Marshal(value)
        r == memcache_Set(st, key, m.b, fault)
    IN  IF m.err # Nil THEN SetReturn(r.store, m.err, r.calls) ELSE r

memcacheCache_SetMultiple(st, key, value, fault) ==
    LET m == json_Marshal(value) IN
    IF m.err # Nil THEN SetReturn(st, m.err, 0)
    ELSE memcache_Set(st, key, m.b, fault)

memcacheCache_GetMultiple(st, key, fault) ==
    LET resp == memcache_Get(st, key, fault) IN
    IF resp.err # Nil THEN GetReturn(NilSlice, resp.err, resp.calls)
    ELSE LET u == json_UnmarshalMultiple(resp.b) IN
         IF u.err # Nil THEN GetReturn(NilSlice, u.err, resp.calls)
         ELSE GetReturn(u.v, Nil, resp.calls)

redisCache_SetSingle(st, key, value, fault) ==
    redis_Set(st, key, value, fault)

\* a GetSingle that hands back the stored bytes as they are
redisCache_GetSingle_Raw(st, key, fault) ==
    LET resp == redis_Get(st, key, fault) IN
    IF resp.err # Nil THEN GetReturn(NilV, resp.err, resp.calls)
    ELSE GetReturn(Bytes(resp.b), Nil, resp.calls)

redisCache_GetSingle(st, key, fault) ==
    LET resp == redis_Get(st, key, fault) IN
    IF resp.err # Nil THEN GetReturn(NilV, resp.err, resp.calls)
    ELSE LET u == json_UnmarshalSingle(resp.b) IN
         IF u.err # Nil THEN GetReturn(NilV, u.err, resp.calls)
         ELSE GetReturn(u.v, Nil, resp.calls)

redisCache_SetMultiple(st, key, value, fault) ==
    redis_Set(st, key, value, fault)

\* a GetMultiple that takes a missing key for an empty record
redisCache_GetMultiple_MissIsEmpty(st, key, fault) ==
    LET resp == redis_Get(st, key, fault) IN
    IF resp.err = RedisNil THEN GetReturn(NilSlice, Nil, resp.calls)
    ELSE IF resp.err # Nil THEN GetReturn(NilSlice, resp.err, resp.calls)
    ELSE LET u == json_UnmarshalMultiple(resp.b) IN
         IF u.err # Nil THEN GetReturn(NilSlice, u.err, resp.calls)
         ELSE GetReturn(u.v, Nil, resp.calls)

redisCache_GetMultiple(st, key, fault) ==
    LET resp == redis_Get(st, key, fault) IN
    IF resp.err # Nil THEN GetReturn(NilSlice, resp.err, resp.calls)
    ELSE LET u == json_UnmarshalMultiple(resp.b) IN
         IF u.err # Nil THEN GetReturn(NilSlice, u.err, resp.calls)
         ELSE GetReturn(u.v, Nil, resp.calls)

(***************************************************************************)
(* The Cache interface and the NewCache wrapper.  A Cache value is the     *)
(* name of its dynamic type; calling a method of the interface dispatches  *)
(* on it.  cacheStruct embeds the Cache it wraps, so each of its methods   *)
(* is the promoted method of the embedded value.                           *)
(***************************************************************************)
Backends == {"memcacheCache", "redisCache"}

Cache_SetSingle(c, st, key, value, fault) ==
    IF c = "memcacheCache" THEN memcacheCache_SetSingle(st, key, value, fault)
    ELSE redisCache_SetSingle(st, key, value, fault)

Cache_GetSingle(c, st, key, fault) ==
    IF c = "memcacheCache" THEN memcacheCache_GetSingle(st, key, fault)
    ELSE redisCache_GetSingle(st, key, fault)

Cache_SetMultiple(c, st, key, value, fault) ==
    IF c = "memcacheCache" THEN memcacheCache_SetMultiple(st, key, value, fault)
    ELSE redisCache_SetMultiple(st, key, value, fault)

Cache_GetMultiple(c, st, key, fault) ==
    IF c = "memcacheCache" THEN memcacheCache_GetMultiple(st, key, fault)
    ELSE redisCache_GetMultiple(st, key, fault)

\* NewCache(cache) == cacheStruct{cache}
NewCache(c) == [Cache |-> c]

cacheStruct_SetSingle(w, st, key, value, fault) ==
    Cache_SetSingle(w.Cache, st, key, value, fault)

cacheStruct_GetSingle(w, st, key, fault) ==
    Cache_GetSingle(w.Cache, st, key, fault)

\* a wrapper with a SetMultiple of its own, which reports success always
cacheStruct_SetMultiple_Swallow(w, st, key, value, fault) ==
    LET r == Cache_SetMultiple(w.Cache, st, key, value, fault) IN
    SetReturn(r.store, Nil, r.calls)

cacheStruct_SetMultiple(w, st, key, value, fault) ==
    Cache_SetMultiple(w.Cache, st, key, value, fault)

cacheStruct_GetMultiple(w, st, key, fault) ==
    Cache_GetMultiple(w.Cache, st, key, fault)

(***************************************************************************)
(* The values callers pass.                                                *)
(***************************************************************************)
Atoms == {Num(1), Str(<<"a">>)}

\* the sequences of at most MaxLen atoms
AtomSeqs == UNION {[1..n -> Atoms] : n \in 0..MaxLen}

\* what SetMultiple is called with: flat sequences, a nil sequence, a
\* nested one, and one holding a value that has no encoding
MultipleValues ==
    {Slice(es) : es \in AtomSeqs}
        \cup {NilSlice, Slice(<<Slice(<<NilV>>), Num(12)>>), Slice(<<ChanV>>)}

\* what SetSingle is called with: nil, numbers, strings (some of them JSON
\* texts themselves), a sequence, and a value that has no encoding
SingleValues ==
    {NilV, Num(1), Num(12), Str(<<>>), Str(<<"a">>),
     Str(<<"n", "u", "l", "l">>), Str(<<"[", "1", "]">>),
     Slice(<<Num(1), Str(<<"a">>)>>), ChanV}

\* what the key that is not watched is written with
OtherSingleValues == {Str(<<"a">>)}
OtherMultipleValues == {Slice(<<Num(1)>>)}

(***************************************************************************)
(* The cache component.                                                    *)
(***************************************************************************)
NoValue == [kind |-> "none"]

NoCall ==
    [op |-> "none", key |-> "", result |-> NoValue, err |-> Nil,
     fault |-> FALSE, calls |-> 0]

NoSet == [op |-> "none", value |-> NoValue, err |-> Nil]

SetCall(op, key, fault, r) ==
    [op |-> op, key |-> key, result |-> NoValue, err |-> r.err,
     fault |-> fault, calls |-> r.calls]

GetCall(op, key, fault, r) ==
    [op |-> op, key |-> key, result |-> r.result, err |-> r.err,
     fault |-> fault, calls |-> r.calls]

\* the record of a Set call on key: kept for the watched key, unless the
\* backend was unreachable (the call then changed nothing)
Recorded(op, key, value, fault, r) ==
    IF key = watched /\ ~fault
    THEN [op |-> op, value |-> value, err |-> r.err]
    ELSE lastSet

\* before the program has constructed its Cache
NoCache == "none"

CacheInit ==
    /\ cache = NoCache
    /\ store = EmptyStore
    /\ wstore = EmptyStore
    /\ last = NoCall
    /\ wlast = NoCall
    /\ watched = ""
    /\ written = {}
    /\ lastSet = NoSet

\* NewMemcache(host, port); from here on the writes to key w are recorded
NewMemcache(w) ==
    /\ cache = NoCache
    /\ cache' = "memcacheCache"
    /\ watched' = w
    /\ UNCHANGED <<store, last, wstore, wlast, written, lastSet, nsqVars>>

\* NewRedis(host, port); from here on the writes to key w are recorded
NewRedis(w) ==
    /\ cache = NoCache
    /\ cache' = "redisCache"
    /\ watched' = w
    /\ UNCHANGED <<store, last, wstore, wlast, written, lastSet, nsqVars>>

\* a caller calls SetSingle(ctx, key, value)
SetSingle(key, value, fault) ==
    /\ cache # NoCache
    /\ LET r == Cache_SetSingle(cache, store, key, value, fault)
           w == cacheStruct_SetSingle(NewCache(cache), wstore, key, value, fault)
       IN  /\ store' = r.store
           /\ last' = SetCall("SetSingle", key, fault, r)
           /\ wstore' = w.store
           /\ wlast' = SetCall("SetSingle", key, fault, w)
           /\ lastSet' = Recorded("SetSingle", key, value, fault, r)
           /\ written' = (IF r.err = Nil THEN written \cup {key} ELSE written)
           /\ UNCHANGED <<cache, watched, nsqVars>>

\* a caller calls GetSingle(ctx, key)
GetSingle(key, fault) ==
    /\ cache # NoCache
    /\ LET r == Cache_GetSingle(cache, store, key, fault)
           w == cacheStruct_GetSingle(NewCache(cache), wstore, key, fault)
       IN  /\ last' = GetCall("GetSingle", key, fault, r)
           /\ wlast' = GetCall("GetSingle", key, fault, w)
           /\ UNCHANGED <<cache, store, wstore, watched, written, lastSet, nsqVars>>

\* a caller calls SetMultiple(ctx, key, value)
SetMultiple(key, value, fault) ==
    /\ cache # NoCache
    /\ LET r == Cache_SetMultiple(cache, store, key, value, fault)
           w == cacheStruct_SetMultiple(NewCache(cache), wstore, key, value, fault)
       IN  /\ store' = r.store
           /\ last' = SetCall("SetMultiple", key, fault, r)
           /\ wstore' = w.store
           /\ wlast' = SetCall("SetMultiple", key, fault, w)
           /\ lastSet' = Recorded("SetMultiple", key, value, fault, r)
           /\ written' = (IF r.err = Nil THEN written \cup {key} ELSE written)
           /\ UNCHANGED <<cache, watched, nsqVars>>

\* a caller calls GetMultiple(ctx, key)
GetMultiple(key, fault) ==
    /\ cache # NoCache
    /\ LET r == Cache_GetMultiple(cache, store, key, fault)
           w == cacheStruct_GetMultiple(NewCache(cache), wstore, key, fault)
       IN  /\ last' = GetCall("GetMultiple", key, fault, r)
           /\ wlast' = GetCall("GetMultiple", key, fault, w)
           /\ UNCHANGED <<cache, store, wstore, watched, written, lastSet, nsqVars>>

CacheNext ==
    \/ \E w \in Keys : NewMemcache(w)
    \/ \E w \in Keys : NewRedis(w)
    \/ \E k \in Keys, f \in BOOLEAN :
          \E v \in (IF k = watched THEN SingleValues ELSE OtherSingleValues) :
             SetSingle(k, v, f)
    \/ \E k \in Keys, f \in BOOLEAN : GetSingle(k, f)
    \/ \E k \in Keys, f \in BOOLEAN :
          \E v \in (IF k = watched THEN MultipleValues ELSE OtherMultipleValues) :
             SetMultiple(k, v, f)
    \/ \E k \in Keys, f \in BOOLEAN : GetMultiple(k, f)


(***************************************************************************)
(* Properties of the cache component.                                      *)
(***************************************************************************)
\* the last call was op on the watched key and the backend answered it
WatchedGet(op) == last.op = op /\ last.key = watched /\ ~last.fault

\* the elements of a MultipleDataRecord, in order (none for a nil one)
ElemsOf(v) == IF v.kind = "slice" THEN v.elems ELSE <<>>

IsSequence(v) == v.kind \in {"slice", "nilslice"}

\* C2: on the Memcache adapter, after SetSingle(k, v) has stored v, a
\* GetSingle(k) with no other write to k in between returns bytes that
\* deserialize to a value equal to v.
C2_RoundTripSingle ==
    (/\ cache = "memcacheCache"
     /\ WatchedGet("GetSingle")
     /\ lastSet.op = "SetSingle"
     /\ lastSet.err = Nil)
    => /\ last.err = Nil
       /\ last.result.kind = "bytes"
       /\ json_UnmarshalSingle(last.result.b) = [v |-> lastSet.value, err |-> Nil]

C2_Witness ==
    /\ cache = "memcacheCache"
    /\ WatchedGet("GetSingle")
    /\ lastSet.op = "SetSingle"
    /\ lastSet.value = Slice(<<Num(1), Str(<<"a">>)>>)
    /\ last.err = Nil
    /\ store[watched] # store[CHOOSE k \in Keys : k # watched]
    /\ (CHOOSE k \in Keys : k # watched) \in written

\* C3: on both adapters, after SetMultiple(k, s) with a sequence s that has
\* an encoding, a GetMultiple(k) with no other write to k in between
\* succeeds and returns a sequence with the length and the element order
\* of s.
C3_RoundTripMultiple ==
    (/\ WatchedGet("GetMultiple")
     /\ lastSet.op = "SetMultiple"
     /\ Marshalable(lastSet.value))
    => /\ lastSet.err = Nil
       /\ last.err = Nil
       /\ IsSequence(last.result)
       /\ ElemsOf(last.result) = ElemsOf(lastSet.value)

\* C3, on the Memcache adapter alone
C3_RoundTripMultipleMemcache == cache = "memcacheCache" => C3_RoundTripMultiple

\* C4: a GetSingle or GetMultiple of a key nothing was ever stored under
\* returns a nil result and an error, never a value with a nil error; the
\* error is the backend's not-found error whenever the backend answered.
NotFound == IF cache = "memcacheCache" THEN ErrCacheMiss ELSE RedisNil

C4_MissIsNotFound ==
    (last.op \in {"GetSingle", "GetMultiple"} /\ last.key \notin written)
    => /\ last.err # Nil
       /\ last.result = (IF last.op = "GetSingle" THEN NilV ELSE NilSlice)
       /\ (~last.fault => last.err = NotFound)

C4_Witness ==
    /\ cache = "redisCache"
    /\ last.op = "GetMultiple"
    /\ last.key \notin written
    /\ ~last.fault
    /\ last.err = RedisNil
    /\ written # {}

\* C8 as claimed: on the Redis adapter, GetSingle of an existing key
\* returns the stored bytes as they are, without deserializing them.
C8_RedisGetSingleRaw ==
    (/\ cache = "redisCache"
     /\ last.op = "GetSingle"
     /\ ~last.fault
     /\ store[last.key].present)
    => last.err = Nil /\ last.result = Bytes(store[last.key].b)

\* C8 as amended: GetSingle of an existing key returns the stored bytes as
\* they are on the Memcache adapter; on the Redis adapter it returns the
\* value the stored bytes decode to as JSON, or a nil result and the
\* decoding error when they are not a JSON text.
C8_GetSingleByBackend ==
    (/\ last.op = "GetSingle"
     /\ ~last.fault
     /\ store[last.key].present)
    => LET b == store[last.key].b
           d == ParseDocument(b)
       IN  IF cache = "memcacheCache"
           THEN last.err = Nil /\ last.result = Bytes(b)
           ELSE IF d.ok
           THEN last.err = Nil /\ last.result = d.v /\ last.result.kind # "bytes"
           ELSE last.err = ErrSyntax /\ last.result = NilV

C8_Witness ==
    /\ cache = "redisCache"
    /\ last.op = "GetSingle"
    /\ ~last.fault
    /\ store[last.key].present
    /\ store[last.key].b = <<"[", "1", "]">>
    /\ last.result = Slice(<<Num(1)>>)

\* C9: every call made through NewCache(c) returns what the same call
\* returns on c, and leaves the backend in the same state.
C9_WrapperTransparent == wlast = last /\ wstore = store

C9_Witness ==
    /\ wlast.op = "SetMultiple"
    /\ wlast.err # Nil
    /\ written # {}
    /\ wstore # EmptyStore

\* C10: a get fails closed on a shape mismatch: a GetMultiple of a key last
\* written by SetSingle with a value that is not a sequence, the stored
\* bytes not being a JSON array, returns an error and a nil result; a Redis
\* GetSingle of bytes that are not a JSON text does too.
C10_FailClosed ==
    /\ (/\ WatchedGet("GetMultiple")
        /\ lastSet.op = "SetSingle"
        /\ lastSet.err = Nil
        /\ ~IsSequence(lastSet.value)
        /\ ~(ParseDocument(store[watched].b).ok
               /\ ParseDocument(store[watched].b).v.kind = "slice"))
       => last.err # Nil /\ last.result = NilSlice
    /\ (/\ cache = "redisCache"
        /\ last.op = "GetSingle"
        /\ ~last.fault
        /\ store[last.key].present
        /\ ~ParseDocument(store[last.key].b).ok)
       => last.err # Nil /\ last.result = NilV

\* C10 without the JSON text null: when the stored bytes are neither a JSON
\* array nor null, GetMultiple returns an error and a nil result.
C10_FailClosedExceptNull ==
    (/\ last.op = "GetMultiple"
     /\ ~last.fault
     /\ store[last.key].present
     /\ LET d == ParseDocument(store[last.key].b) IN
        ~(d.ok /\ d.v.kind \in {"slice", "nil"}))
    => last.err # Nil /\ last.result = NilSlice

\* C12: on the Memcache adapter a SetSingle or SetMultiple whose value has
\* no JSON encoding returns the error of json.Marshal, makes no call on the
\* backend client, and leaves the store as it was: what each key held, or
\* that it held nothing, is unchanged.
C12_MarshalFailureWritesNothing ==
    [][cache = "memcacheCache" =>
          /\ (/\ last'.op \in {"SetSingle", "SetMultiple"}
               /\ last'.err = ErrUnsupportedType)
              => (last'.calls = 0 /\ store' = store)
          /\ (/\ lastSet'.op \in {"SetSingle", "SetMultiple"}
               /\ ~Marshalable(lastSet'.value))
              => lastSet'.err = ErrUnsupportedType
       ]_vars

C12_Witness ==
    /\ cache = "memcacheCache"
    /\ last.op = "SetMultiple"
    /\ last.key = watched
    /\ ~last.fault
    /\ last.err = ErrUnsupportedType
    /\ lastSet.value = Slice(<<ChanV>>)
    /\ store[watched] = Present(<<"1", "2">>)

(***************************************************************************)
(* Package nsq.  An execution scope (context.Context) is the chain of      *)
(* values stashed in it, outermost first, whether it carries a deadline,   *)
(* and whether it is done.                                                 *)
(***************************************************************************)
Topics == {"orders", "payments"}

\* a topic name the broker client refuses (nsq.IsValidTopicName is false)
BadTopic == "bad topic!"

Payloads == {<<"4", "2">>, <<"7">>}

context_Background == [vals |-> <<>>, deadline |-> FALSE, done |-> FALSE]

context_WithValue(ctx, key, val) ==
    [ctx EXCEPT !.vals = Append(@, [key |-> key, val |-> val])]

context_WithTimeout(ctx) == [ctx EXCEPT !.deadline = TRUE]

\* the cancel function WithTimeout returns: the scope is done from then on
context_cancel(ctx) == [ctx EXCEPT !.done = TRUE]

RECURSIVE ValueFrom(_, _, _)
\* the value of the innermost entry for key among the first i entries
ValueFrom(vals, i, key) ==
    IF i = 0 THEN NilV
    ELSE IF vals[i].key = key THEN vals[i].val
    ELSE ValueFrom(vals, i - 1, key)

\* ctx.Value(key)
context_Value(ctx, key) == ValueFrom(ctx.vals, Len(ctx.vals), key)

\* string(message.Body)
StringOf(body) == Str(body.b)

\* fmt.Errorf(`failed to consume the topic %s`, topic)
ErrConsume(topic) ==
    CASE topic = "orders" -> "failed to consume the topic orders"
      [] topic = "payments" -> "failed to consume the topic payments"
      [] OTHER -> "failed to consume the topic"

\* what a call returns: a value and an error, or a panic
Returned(value, err) == [value |-> value, err |-> err, panic |-> FALSE]
Panicked == [value |-> Str(<<>>), err |-> Nil, panic |-> TRUE]

\* a Consume that hands back whatever the scope carries
Client_Consume_AnyValue(ctx, topic) ==
    IF Len(ctx.vals) > 0 THEN Returned(ctx.vals[Len(ctx.vals)].val, Nil)
    ELSE Returned(Str(<<>>), ErrConsume(topic))

\* Client.Consume(ctx, topic); the type assertion panics on a stashed value
\* that is not a string
Client_Consume(ctx, topic) ==
    IF context_Value(ctx, topic) # NilV
    THEN IF context_Value(ctx, topic).kind = "string"
         THEN Returned(context_Value(ctx, topic), Nil)
         ELSE Panicked
    ELSE Returned(Str(<<>>), ErrConsume(topic))

\* a handler that stashes the body under a key of its own
HandlerScope_FixedKey(topic, message) ==
    context_WithTimeout(
        context_WithValue(context_Background, "topic", StringOf(message.body)))

\* a handler that keeps one scope per topic: while a message of the topic is
\* being processed, the next invocation is given the scope of that one
HandlerScope_PerTopic(topic, message) ==
    LET busy == {d \in DOMAIN handlers :
                    handlers[d].pc = "cf" /\ consumers[d].topic = topic}
    IN  IF busy # {}
        THEN handlers[CHOOSE d \in busy : TRUE].ctx
        ELSE context_WithTimeout(
                 context_WithValue(context_Background, topic, StringOf(message.body)))

\* the scope the handler builds for a message
HandlerScope(topic, message) ==
    context_WithTimeout(
        context_WithValue(context_Background, topic, StringOf(message.body)))

\* a handler whose wrapper passes the processing function's error on
HandlerInner_Propagate(cfErr) == cfErr

\* the function literal wrapped around the call of cf: it calls cf, drops
\* what cf returns and returns nil
HandlerInner(cfErr) == Nil

ErrProducer == "nsq: publish failed"
ErrNewConsumer == "nsq: invalid topic name"
ErrConnect == "nsq: lookupd connect failed"
ErrCf == "processing failed"

(***************************************************************************)
(* The broker component.                                                   *)
(***************************************************************************)
\* the calls of RegisterConsumer the program makes
ConsumerIds == {"c1", "c2"}

NoConsumer ==
    [state |-> "Unregistered", topic |-> "", handler |-> FALSE, ret |-> "none",
     invoked |-> 0]

NoResult == [called |-> FALSE, topic |-> "", ret |-> Returned(Str(<<>>), Nil)]

IdleHandler ==
    [pc |-> "idle", msg |-> 0, ctx |-> context_Background, seen |-> NoResult,
     cfErr |-> "none", ret |-> "none", requeued |-> FALSE]

\* before the first Publish
NoPublish == [err |-> "none", fault |-> FALSE, calls |-> 0]

NsqInit ==
    /\ msgs = <<>>
    /\ pubRet = NoPublish
    /\ consumers = [c \in ConsumerIds |-> NoConsumer]
    /\ handlers = [c \in ConsumerIds |-> IdleHandler]
    /\ lastConsume = [called |-> FALSE, scope |-> context_Background, topic |-> "",
                      ret |-> Returned(Str(<<>>), Nil)]

\* nsq.Producer.Publish(topic, body): one PUB command; the broker refuses a
\* topic name that is not valid, an accepted message is queued on the topic
producer_Publish(queue, topic, body, fault) ==
    IF fault \/ topic \notin Topics
    THEN [msgs |-> queue, err |-> ErrProducer, calls |-> 1]
    ELSE [msgs |-> Append(queue,
                      [topic |-> topic, body |-> body, state |-> "queued",
                       invocations |-> 0, requeues |-> 0]),
          err |-> Nil, calls |-> 1]

\* Client.Publish(ctx, &NsqEvent{topic, payload}): what the producer returns
Client_Publish(queue, topic, payload, fault) ==
    producer_Publish(queue, topic, Bytes(payload), fault)

\* a caller calls Publish; fault: the broker cannot be reached
Publish(topic, payload, fault) ==
    /\ Len(msgs) < MaxMsgs
    /\ LET r == Client_Publish(msgs, topic, payload, fault)
       IN  /\ pubRet' = [err |-> r.err, fault |-> fault, calls |-> r.calls]
           /\ msgs' = r.msgs
    /\ UNCHANGED <<consumers, handlers, lastConsume, cacheVars>>

\* the consumer a RegisterConsumer call leaves behind
Registered_ConnectAnyway(topic, connOk) ==
    IF topic \notin Topics
    THEN [NoConsumer EXCEPT !.ret = ErrNewConsumer]
    ELSE [state |-> "Connected", topic |-> topic, handler |-> TRUE,
          ret |-> (IF connOk THEN Nil ELSE ErrConnect), invoked |-> 0]

\* Client.RegisterConsumer(topic, cf): NewConsumer, AddHandler,
\* ConnectToNSQLookupd; the first error is returned
Registered(topic, connOk) ==
    IF topic \notin Topics
    THEN [NoConsumer EXCEPT !.ret = ErrNewConsumer]
    ELSE IF ~connOk
    THEN [state |-> "Created", topic |-> topic, handler |-> TRUE,
          ret |-> ErrConnect, invoked |-> 0]
    ELSE [state |-> "Connected", topic |-> topic, handler |-> TRUE,
          ret |-> Nil, invoked |-> 0]

RegisterConsumer(c, topic, connOk) ==
    /\ consumers[c].ret = "none"
    /\ consumers' = [consumers EXCEPT ![c] = Registered(topic, connOk)]
    /\ UNCHANGED <<msgs, pubRet, handlers, lastConsume, cacheVars>>

\* the discovery service names a broker node and the subscription starts
Subscribed(c) ==
    /\ consumers[c].state = "Connected"
    /\ consumers' = [consumers EXCEPT ![c].state = "Running"]
    /\ UNCHANGED <<msgs, pubRet, handlers, lastConsume, cacheVars>>

\* a delivery that does not look at the state of the consumer
HandleMessage_AnyState(c, m) ==
    /\ consumers[c].handler
    /\ handlers[c].pc = "idle"
    /\ msgs[m].state = "queued"
    /\ msgs[m].topic = consumers[c].topic
    /\ msgs' = [msgs EXCEPT ![m].state = "inflight",
                            ![m].invocations = @ + 1]
    /\ consumers' = [consumers EXCEPT ![c].invoked = 1]
    /\ handlers' = [handlers EXCEPT ![c] =
           [pc |-> "cf", msg |-> m,
            ctx |-> HandlerScope(consumers[c].topic, msgs[m]),
            seen |-> NoResult, cfErr |-> "none", ret |-> "none",
            requeued |-> FALSE]]
    /\ UNCHANGED <<pubRet, lastConsume, cacheVars>>

\* the handler receives message m: it builds the scope and calls cf
HandleMessage(c, m) ==
    /\ consumers[c].state = "Running"
    /\ consumers[c].handler
    /\ handlers[c].pc = "idle"
    /\ msgs[m].state = "queued"
    /\ msgs[m].topic = consumers[c].topic
    /\ msgs' = [msgs EXCEPT ![m].state = "inflight",
                            ![m].invocations = @ + 1]
    /\ consumers' = [consumers EXCEPT ![c].invoked = 1]
    /\ handlers' = [handlers EXCEPT ![c] =
           [pc |-> "cf", msg |-> m,
            ctx |-> HandlerScope(consumers[c].topic, msgs[m]),
            seen |-> NoResult, cfErr |-> "none", ret |-> "none",
            requeued |-> FALSE]]
    /\ UNCHANGED <<pubRet, lastConsume, cacheVars>>

\* inside cf: a call of Consume(ctx, topic)
CfConsume(c, topic) ==
    /\ handlers[c].pc = "cf"
    /\ handlers' = [handlers EXCEPT ![c].seen =
           [called |-> TRUE, topic |-> topic,
            ret |-> Client_Consume(handlers[c].ctx, topic)]]
    /\ UNCHANGED <<msgs, pubRet, consumers, lastConsume, cacheVars>>

\* a handler that gives up on cf when the 30 seconds pass
DeadlineExpires_Abandon(c) ==
    /\ handlers[c].pc = "cf"
    /\ handlers[c].ctx.deadline
    /\ ~handlers[c].ctx.done
    /\ handlers' = [handlers EXCEPT ![c] =
           [IdleHandler EXCEPT !.ctx = context_cancel(handlers[c].ctx),
                               !.ret = Nil]]
    /\ msgs' = [msgs EXCEPT ![handlers[c].msg].state = "finished"]
    /\ UNCHANGED <<pubRet, consumers, lastConsume, cacheVars>>

\* the 30 seconds of the scope pass while cf runs: the timer of the scope
\* closes its Done channel, and nothing else
DeadlineExpires(c) ==
    /\ handlers[c].pc = "cf"
    /\ handlers[c].ctx.deadline
    /\ ~handlers[c].ctx.done
    /\ handlers' = [handlers EXCEPT ![c].ctx.done = TRUE]
    /\ UNCHANGED <<msgs, pubRet, consumers, lastConsume, cacheVars>>

\* cf returns cfErr and the handler runs to its end: a non-nil error of the
\* wrapper requeues the message and is returned, otherwise the handler
\* returns nil and the message is finished; the deferred cancel ends the scope
HandlerReturns(c, cfErr) ==
    /\ handlers[c].pc = "cf"
    /\ LET err == HandlerInner(cfErr)
           m == handlers[c].msg
       IN  /\ handlers' = [handlers EXCEPT ![c] =
                  [IdleHandler EXCEPT !.ctx = context_cancel(handlers[c].ctx),
                                      !.cfErr = cfErr, !.ret = err,
                                      !.requeued = (err # Nil)]]
           /\ msgs' = IF err # Nil
                      THEN [msgs EXCEPT ![m].state = "queued", ![m].requeues = @ + 1]
                      ELSE [msgs EXCEPT ![m].state = "finished"]
    /\ UNCHANGED <<pubRet, consumers, lastConsume, cacheVars>>

\* the process shuts down or the connection is lost for good
Terminated(c) ==
    /\ consumers[c].state \in {"Connected", "Running"}
    /\ consumers' = [consumers EXCEPT ![c].state = "Terminated"]
    /\ handlers' = [handlers EXCEPT ![c].pc =
           IF @ = "cf" THEN "killed" ELSE @]
    /\ UNCHANGED <<msgs, pubRet, lastConsume, cacheVars>>

\* the keys and values callers stash in a scope
ScopeKeys == Topics
ScopeValues == {Str(<<"7">>), Str(<<>>), Num(1)}

RECURSIVE ScopesOfDepth(_)
\* the scopes made of n nested context.WithValue over context.Background
ScopesOfDepth(n) ==
    IF n = 0 THEN {context_Background}
    ELSE {context_WithValue(sc, k, v) :
              sc \in ScopesOfDepth(n - 1), k \in ScopeKeys, v \in ScopeValues}

\* the scopes Consume is called with: those callers build, and those the
\* handler builds
Scopes ==
    UNION {ScopesOfDepth(n) : n \in 0..MaxDepth}
        \cup {HandlerScope(t, [body |-> Bytes(p)]) : t \in Topics, p \in Payloads}

\* a caller calls Consume(scope, topic)
Consume(scope, topic) ==
    /\ lastConsume' = [called |-> TRUE, scope |-> scope, topic |-> topic,
                       ret |-> Client_Consume(scope, topic)]
    /\ UNCHANGED <<msgs, pubRet, consumers, handlers, cacheVars>>

NsqNext ==
    \/ \E t \in Topics \cup {BadTopic}, p \in Payloads, f \in BOOLEAN : Publish(t, p, f)
    \/ \E c \in ConsumerIds, t \in Topics \cup {BadTopic}, ok \in BOOLEAN :
          RegisterConsumer(c, t, ok)
    \/ \E c \in ConsumerIds : Subscribed(c)
    \/ \E c \in ConsumerIds, m \in 1..Len(msgs) : HandleMessage(c, m)
    \/ \E c \in ConsumerIds, t \in Topics : CfConsume(c, t)
    \/ \E c \in ConsumerIds : DeadlineExpires(c)
    \/ \E c \in ConsumerIds, e \in {Nil, ErrCf} : HandlerReturns(c, e)
    \/ \E c \in ConsumerIds : Terminated(c)

\* Consume on its own, called with every scope and topic
ConsumeNext == \E sc \in Scopes, t \in Topics \cup {BadTopic} : Consume(sc, t)

\* Publish on its own
PublishNext ==
    \E t \in Topics \cup {BadTopic}, p \in Payloads, f \in BOOLEAN : Publish(t, p, f)

\* the calls that reach a backend: those of a program that uses the cache
\* and those of a program that publishes.  The two components share no
\* state, so each is run from the initial state without the other.
CallsNext ==
    \/ cache = NoCache /\ PublishNext
    \/ pubRet = NoPublish /\ CacheNext

Init == CacheInit /\ NsqInit

\* the cache component alone, and the broker component alone
CacheSpec == Init /\ [][CacheNext]_vars

NsqSpec == Init /\ [][NsqNext]_vars

ConsumeSpec == Init /\ [][ConsumeNext]_vars

CallsSpec == Init /\ [][CallsNext]_vars

\* the broker component when subscriptions get established, the handler
\* goroutine of a running consumer takes the messages waiting for it, and
\* processing functions return
FairNsqSpec ==
    /\ NsqSpec
    /\ \A c \in ConsumerIds :
          /\ WF_vars(Subscribed(c))
          /\ WF_vars(\E m \in 1..Len(msgs) : HandleMessage(c, m))
          /\ WF_vars(\E e \in {Nil, ErrCf} : HandlerReturns(c, e))

(***************************************************************************)
(* Properties of the broker component.                                     *)
(***************************************************************************)
MsgIds == 1..Len(msgs)

C1_EventuallyConsumed ==
    \A m \in 1..MaxMsgs :
        (/\ m \in MsgIds
         /\ msgs[m].state = "queued"
         /\ \E c \in ConsumerIds :
               consumers[c].ret = Nil /\ consumers[c].topic = msgs[m].topic)
        ~> (\/ m \in MsgIds /\ msgs[m].state = "finished" /\ msgs[m].invocations = 1
            \/ \E c \in ConsumerIds : consumers[c].state = "Terminated")

NothingStashed(scope, key) ==
    \A i \in 1..Len(scope.vals) : scope.vals[i].key # key

\* C5: Consume(scope, t) on a scope that holds no value stashed under t, a
\* scope the handler built for another topic included, returns the "failed
\* to consume" error and the empty string.
C5_ConsumeNothingStashed ==
    (lastConsume.called /\ NothingStashed(lastConsume.scope, lastConsume.topic))
    => lastConsume.ret = Returned(Str(<<>>), ErrConsume(lastConsume.topic))

C5_Witness ==
    /\ lastConsume.called
    /\ lastConsume.scope = HandlerScope("orders", [body |-> Bytes(<<"4", "2">>)])
    /\ lastConsume.topic = "payments"
    /\ lastConsume.ret.err = ErrConsume("payments")

\* C6: whatever error the processing function returns, the handler returns
\* nil to the broker client and does not requeue the message.
C6_HandlerReportsSuccess ==
    /\ \A c \in ConsumerIds :
          handlers[c].cfErr # "none" =>
             handlers[c].ret = Nil /\ ~handlers[c].requeued
    /\ \A m \in MsgIds : msgs[m].requeues = 0

C6_Witness ==
    \E c \in ConsumerIds, m \in MsgIds :
        /\ handlers[c].cfErr = ErrCf
        /\ handlers[c].ret = Nil
        /\ msgs[m].state = "finished"
        /\ msgs[m].topic = consumers[c].topic
        /\ \A n \in MsgIds : msgs[n].state = "finished"

\* C7: a RegisterConsumer that returned an error left no consumer
\* connected, and its processing function is never invoked; one that
\* returned nil left a consumer with its handler installed that got
\* connected.
C7_RegistrationAllOrNothing ==
    \A c \in ConsumerIds :
        /\ consumers[c].ret \notin {"none", Nil} =>
              /\ consumers[c].state \in {"Unregistered", "Created"}
              /\ consumers[c].invoked = 0
              /\ handlers[c] = IdleHandler
        /\ consumers[c].ret = Nil =>
              /\ consumers[c].handler
              /\ consumers[c].state \in {"Connected", "Running", "Terminated"}

C7_Witness ==
    \E c, d \in ConsumerIds :
        /\ consumers[c].ret = ErrConnect
        /\ consumers[d].ret = Nil
        /\ consumers[d].topic = consumers[c].topic
        /\ consumers[d].invoked = 1
        /\ \E m \in MsgIds : msgs[m].topic = consumers[c].topic /\ msgs[m].state = "queued"

\* C11: the expiry of the 30-second deadline changes nothing but the scope
\* cf was given, which becomes done: cf keeps running and its message stays
\* in flight. The handler leaves cf, and its message leaves the in-flight
\* state, only in a step in which cf has returned, whether or not the scope
\* was done by then; and when the handler has returned the scope is done.
C11_DeadlineOnlyInvalidatesScope ==
    [][\A c \in ConsumerIds :
          LET h == handlers[c]
              hn == handlers'[c]
          IN  /\ (h.pc = "cf" /\ ~h.ctx.done /\ hn.pc = "cf" /\ hn.ctx.done) =>
                     /\ hn = [h EXCEPT !.ctx.done = TRUE]
                     /\ msgs' = msgs
              /\ (h.pc = "cf" /\ hn.pc = "idle") =>
                     /\ hn.cfErr \in {Nil, ErrCf}
                     /\ hn.ctx = context_cancel(h.ctx)
                     /\ msgs'[h.msg].state # "inflight"
              /\ (h.pc = "cf" /\ msgs'[h.msg].state # msgs[h.msg].state) =>
                     /\ hn.pc = "idle"
                     /\ hn.cfErr \in {Nil, ErrCf}
              /\ (h.pc = "cf" /\ h.ctx.done) => hn.pc # "idle" \/ hn.cfErr # "none"
       ]_vars

C11_Witness ==
    \E c, d \in ConsumerIds :
        /\ handlers[c].pc = "cf"
        /\ handlers[c].ctx.done
        /\ handlers[c].seen.called
        /\ msgs[handlers[c].msg].state = "inflight"
        /\ handlers[d].pc = "idle"
        /\ handlers[d].cfErr = Nil
        /\ handlers[d].ctx.done
        /\ handlers[d].ctx.deadline

\* C13: a call of SetSingle, GetSingle, SetMultiple, GetMultiple or Publish
\* makes at most one request to its backend, and when the backend cannot be
\* reached that one request's error is what the caller gets, with no result.
C13_NoInternalRetry ==
    /\ last.calls <= 1
    /\ (last.fault /\ last.calls >= 1) =>
          /\ last.err \in {ErrIO, ErrRedisMarshal}
          /\ last.result \in {NoValue, NilV, NilSlice}
    /\ pubRet.calls <= 1
    /\ pubRet.fault => pubRet.err = ErrProducer

\* C13, apart from the Redis client: the Memcache adapter and Publish make
\* one request and return its error; each Redis adapter method makes one
\* call on the client, which makes at most 1 + MaxRetries requests.
C13_NoRetryAboveTheClient ==
    /\ cache # "redisCache" => last.calls <= 1
    /\ last.calls <= 1 + redis_MaxRetries
    /\ (last.fault /\ last.calls >= 1) =>
          /\ last.err \in {ErrIO, ErrRedisMarshal}
          /\ last.result \in {NoValue, NilV, NilSlice}
    /\ pubRet.calls <= 1
    /\ pubRet.fault => pubRet.err = ErrProducer

\* how far a consumer is in its life
LifecycleRank(state) ==
    CASE state = "Unregistered" -> 0
      [] state = "Created" -> 1
      [] state = "Connected" -> 2
      [] state = "Running" -> 3
      [] state = "Terminated" -> 4

\* C14: a consumer never moves back in Created, Connected, Running,
\* Terminated, and never leaves Terminated; its processing function is
\* invoked only in a step that starts and ends with the consumer Running
\* after a RegisterConsumer that returned nil, and each invocation takes
\* one waiting message that had not been handed to a processing function.
C14_LifecycleForwardOnly ==
    [][\A c \in ConsumerIds :
          /\ LifecycleRank(consumers'[c].state) >= LifecycleRank(consumers[c].state)
          /\ consumers[c].state = "Terminated" => consumers'[c].state = "Terminated"
          /\ (handlers[c].pc # "cf" /\ handlers'[c].pc = "cf") =>
                /\ consumers[c].state = "Running"
                /\ consumers'[c].state = "Running"
                /\ consumers[c].ret = Nil
                /\ Len(msgs') = Len(msgs)
                /\ LET m == handlers'[c].msg
                   IN  /\ m \in 1..Len(msgs)
                       /\ msgs[m].state = "queued"
                       /\ msgs[m].invocations = 0
                       /\ msgs'[m].invocations = 1
                       /\ \A n \in 1..Len(msgs) :
                             n # m => msgs'[n] = msgs[n]
          /\ consumers'[c].invoked # consumers[c].invoked =>
                handlers[c].pc # "cf" /\ handlers'[c].pc = "cf"
       ]_vars

C14_Witness ==
    \E c, d \in ConsumerIds :
        /\ consumers[c].state = "Terminated"
        /\ consumers[c].invoked = 1
        /\ consumers[d].state = "Created"
        /\ consumers[d].topic = consumers[c].topic
        /\ \E m, n \in 1..Len(msgs) :
              /\ msgs[m].topic = consumers[c].topic
              /\ msgs[m].state = "finished"
              /\ msgs[m].invocations = 1
              /\ msgs[n].topic = consumers[c].topic
              /\ msgs[n].state = "queued"
              /\ msgs[n].invocations = 0

\* the invocations in progress on the topic of consumer c
InFlightOn(c) ==
    {d \in ConsumerIds :
        handlers[d].pc = "cf" /\ consumers[d].topic = consumers[c].topic}

\* C15: while several invocations for messages of one topic are in progress,
\* Consume(scope, topic) in each of them returns the body of the message
\* that invocation was given, and what it returned there so far is that body.
C15_ScopeIsolation ==
    \A c \in ConsumerIds :
        (handlers[c].pc = "cf" /\ InFlightOn(c) # {c}) =>
            LET own == Returned(StringOf(msgs[handlers[c].msg].body), Nil)
            IN  /\ Client_Consume(handlers[c].ctx, consumers[c].topic) = own
                /\ context_Value(handlers[c].ctx, consumers[c].topic)
                      = StringOf(msgs[handlers[c].msg].body)
                /\ (handlers[c].seen.called
                      /\ handlers[c].seen.topic = consumers[c].topic)
                   => handlers[c].seen.ret = own

C15_Witness ==
    \E c, d \in ConsumerIds :
        /\ c # d
        /\ handlers[c].pc = "cf"
        /\ handlers[d].pc = "cf"
        /\ consumers[c].topic = consumers[d].topic
        /\ handlers[c].msg # handlers[d].msg
        /\ handlers[c].seen.called
        /\ handlers[c].seen.topic = consumers[c].topic
        /\ handlers[d].seen.called
        /\ handlers[d].seen.topic = consumers[d].topic
        /\ handlers[c].seen.ret = Returned(Str(<<"4", "2">>), Nil)
        /\ handlers[d].seen.ret = Returned(Str(<<"7">>), Nil)
        /\ handlers[c].ctx.done
        /\ ~handlers[d].ctx.done

==========================================================================
